---- MODULE Spec2Model ----
(***************************************************************************)
(* Model of the clustering script src/src/04_clustering.py and of the      *)
(* helpers of src/modules it calls.                                        *)
(*                                                                         *)
(* Column names (the source uses Japanese column labels):                  *)
(*   Code = shoken code, Name = kigyo-mei (company name), Sales = uriage,  *)
(*   OpIncome = eigyo rieki, NetIncome = toki jun-rieki,                   *)
(*   TotalAssets = so-shisan, Equity = jiko shihon, ROA, ROE,              *)
(*   OpMargin = eigyo rieki-ritsu, NetMargin = toki jun-rieki-ritsu,       *)
(*   EquityRatio = jiko shihon hiritsu, AssetTurnover = so-shisan kaiten,  *)
(*   MarginGap = rieki-ritsu sabun, Sales_log = uriage_log,                *)
(*   Cluster = the cluster label column.                                   *)
(*                                                                         *)
(* A cell is a record [k, n, d]:                                           *)
(*   k = "fin"  the float n/d (d > 0, lowest terms)                        *)
(*   k = "nan"  NaN / missing,  k = "pinf" / "ninf"  +inf / -inf           *)
(*   k = "str"  a text cell; d = 1 when the text parses as the number n    *)
(*              (for instance "1,000"), d = 0 when it does not             *)
(***************************************************************************)
EXTENDS Integers, Sequences, FiniteSets, TLC

\* ------------------------------------------------------------------------
\* Float arithmetic as numpy / pandas perform it (exact on rationals)
\* ------------------------------------------------------------------------
Abs(x) == IF x < 0 THEN -x ELSE x

RECURSIVE GCD(_, _)
GCD(a, b) == IF b = 0 THEN a ELSE GCD(b, a % b)

NaN == [k |-> "nan", n |-> 0, d |-> 1]

PInf == [k |-> "pinf", n |-> 0, d |-> 1]

NInf == [k |-> "ninf", n |-> 0, d |-> 1]

Fin(n, d) ==
    LET s == IF d < 0 THEN -1 ELSE 1
        g == GCD(Abs(n), Abs(d))
    IN  [k |-> "fin", n |-> (s * n) \div g, d |-> (s * d) \div g]

Num(n) == Fin(n, 1)

Txt(n, parses) == [k |-> "str", n |-> n, d |-> IF parses THEN 1 ELSE 0]

IsFin(v) == v.k = "fin"

IsInf(v) == v.k \in {"pinf", "ninf"}

\* pandas isna(): NaN is missing, the infinities are not
IsNA(v) == v.k = "nan"

\* sign of a non-NaN float: -1, 0, 1
Sgn(v) ==
    CASE v.k = "pinf" -> 1
      [] v.k = "ninf" -> -1
      [] OTHER -> IF v.n > 0 THEN 1 ELSE IF v.n < 0 THEN -1 ELSE 0

InfOf(s) == IF s > 0 THEN PInf ELSE NInf

FNeg(a) ==
    CASE a.k = "nan" -> NaN
      [] a.k = "pinf" -> NInf
      [] a.k = "ninf" -> PInf
      [] OTHER -> Fin(-a.n, a.d)

FAdd(a, b) ==
    CASE a.k = "nan" \/ b.k = "nan" -> NaN
      [] IsInf(a) /\ IsInf(b) -> IF a.k = b.k THEN a ELSE NaN
      [] IsInf(a) -> a
      [] IsInf(b) -> b
      [] OTHER -> Fin(a.n * b.d + b.n * a.d, a.d * b.d)

FSub(a, b) == FAdd(a, FNeg(b))

FMul(a, b) ==
    CASE a.k = "nan" \/ b.k = "nan" -> NaN
      [] IsInf(a) \/ IsInf(b) ->
            IF Sgn(a) * Sgn(b) = 0 THEN NaN ELSE InfOf(Sgn(a) * Sgn(b))
      [] OTHER -> Fin(a.n * b.n, a.d * b.d)

\* float division: x/0 is +-inf, 0/0 is NaN, no exception is raised
FDiv(a, b) ==
    CASE a.k = "nan" \/ b.k = "nan" -> NaN
      [] IsInf(a) /\ IsInf(b) -> NaN
      [] IsInf(a) -> InfOf(Sgn(a) * (IF Sgn(b) < 0 THEN -1 ELSE 1))
      [] IsInf(b) -> Num(0)
      [] b.n = 0 -> IF a.n = 0 THEN NaN ELSE InfOf(Sgn(a))
      [] OTHER -> Fin(a.n * b.d, a.d * b.n)

\* a <= b and a > b on floats; every comparison with NaN is False
FLe(a, b) ==
    CASE a.k = "nan" \/ b.k = "nan" -> FALSE
      [] a.k = "ninf" \/ b.k = "pinf" -> TRUE
      [] a.k = "pinf" \/ b.k = "ninf" -> FALSE
      [] OTHER -> a.n * b.d <= b.n * a.d

FGt(a, b) ==
    CASE a.k = "nan" \/ b.k = "nan" -> FALSE
      [] OTHER -> ~FLe(a, b)

\* np.log10 on the values the model draws (powers of ten, zero, negatives):
\* log10(x < 0) = NaN, log10(0) = -inf, log10(10^e) = e
RECURSIVE Log10Int(_)
Log10Int(x) == IF x < 10 THEN 0 ELSE 1 + Log10Int(x \div 10)

Log10(v) ==
    CASE v.k = "nan" -> NaN
      [] v.k = "pinf" -> PInf
      [] v.k = "ninf" -> NaN
      [] v.n < 0 -> NaN
      [] v.n = 0 -> NInf
      [] OTHER -> Num(Log10Int(v.n \div v.d))

\* ------------------------------------------------------------------------
\* Sequence helpers
\* ------------------------------------------------------------------------
Range(s) == {s[i] : i \in 1..Len(s)}

RECURSIVE SumSeq(_)
SumSeq(s) == IF s = <<>> THEN Num(0) ELSE FAdd(Head(s), SumSeq(Tail(s)))

RECURSIVE FilterSeq(_, _)
FilterSeq(s, keep) ==
    IF s = <<>> THEN <<>>
    ELSE IF keep[1] THEN <<Head(s)>> \o FilterSeq(Tail(s), Tail(keep))
         ELSE FilterSeq(Tail(s), Tail(keep))

RECURSIVE Flatten(_)
Flatten(ss) == IF ss = <<>> THEN <<>> ELSE Head(ss) \o Flatten(Tail(ss))

\* Series.max(): NaN is skipped, an all-NaN (or empty) column gives NaN
RECURSIVE MaxSkipNA(_)
MaxSkipNA(s) ==
    IF s = <<>> THEN NaN
    ELSE LET m == MaxSkipNA(Tail(s))
             h == Head(s)
         IN  IF IsNA(h) THEN m
             ELSE IF IsNA(m) THEN h
             ELSE IF FGt(h, m) THEN h ELSE m

\* Series.mean(): NaN is skipped, an all-NaN column gives NaN
MeanSkipNA(s) ==
    LET vals == SelectSeq(s, LAMBDA v : ~IsNA(v))
    IN  IF vals = <<>> THEN NaN ELSE FDiv(SumSeq(vals), Num(Len(vals)))

\* ------------------------------------------------------------------------
\* Data frames: [cols |-> sequence of column names, rows |-> sequence of
\* rows, index |-> the row labels]; a row is a function column -> cell
\* ------------------------------------------------------------------------
HasCol(df, c) == c \in Range(df.cols)

Column(df, c) == [i \in 1..Len(df.rows) |-> df.rows[i][c]]

\* df[c] = values: replaces the column, or appends it when it is new
SetCol(df, c, vals) ==
    [df EXCEPT !.cols = IF HasCol(df, c) THEN @ ELSE Append(@, c),
               !.rows = [i \in 1..Len(df.rows) |->
                            [x \in DOMAIN df.rows[i] \cup {c} |->
                                IF x = c THEN vals[i] ELSE df.rows[i][x]]]]

\* df[cols]: the listed columns, in the listed order
Project(df, cs) ==
    [df EXCEPT !.cols = cs,
               !.rows = [i \in 1..Len(df.rows) |->
                            [x \in Range(cs) |-> df.rows[i][x]]]]

\* variant of DropNA: dropna(how = "all"), only all-NaN rows are dropped
DropNAAll(df) ==
    LET keep == [i \in 1..Len(df.rows) |->
                    \E c \in Range(df.cols) : ~IsNA(df.rows[i][c])]
    IN  [df EXCEPT !.rows = FilterSeq(df.rows, keep),
                   !.index = FilterSeq(df.index, keep)]

\* df.dropna(): keeps the rows with no NaN in any column, and their index
DropNA(df) ==
    LET keep == [i \in 1..Len(df.rows) |->
                    \A c \in Range(df.cols) : ~IsNA(df.rows[i][c])]
    IN  [df EXCEPT !.rows = FilterSeq(df.rows, keep),
                   !.index = FilterSeq(df.index, keep)]

\* ------------------------------------------------------------------------
\* The script's column lists
\* ------------------------------------------------------------------------
required_cols ==
    <<"Code", "Name", "Sales", "OpIncome", "NetIncome", "TotalAssets",
      "Equity", "ROA", "ROE">>

numeric_cols ==
    <<"Sales", "OpIncome", "NetIncome", "TotalAssets", "Equity", "ROA", "ROE">>

clustering_cols ==
    <<"Sales_log", "OpMargin", "NetMargin", "ROA", "ROE", "EquityRatio">>

profile_metrics ==
    <<"Sales", "TotalAssets", "OpMargin", "NetMargin", "ROA", "ROE",
      "EquityRatio", "AssetTurnover">>

\* ------------------------------------------------------------------------
\* modules/io.py
\* ------------------------------------------------------------------------
\* str.strip() / replace of the full-width space on the header names the
\* model draws: a padded header loses its padding
StripHeader(h) == IF h = " ROE " THEN "ROE" ELSE h

\* load_financial_xlsx after the existence check: read the sheet and
\* normalise the column names
load_financial_xlsx(sh) ==
    [cols |-> [i \in 1..Len(sh.header) |-> StripHeader(sh.header[i])],
     rows |-> [i \in 1..Len(sh.rows) |->
                  [c \in {StripHeader(h) : h \in Range(sh.header)} |->
                      LET h == CHOOSE x \in Range(sh.header) : StripHeader(x) = c
                      IN  sh.rows[i][h]]],
     index |-> [i \in 1..Len(sh.rows) |-> i]]

\* ------------------------------------------------------------------------
\* modules/preprocess.py
\* ------------------------------------------------------------------------
\* variant of missing_cols: columns are reported only when all are absent
missing_cols_all(df, req) ==
    IF \A i \in 1..Len(req) : ~HasCol(df, req[i]) THEN req ELSE <<>>

\* validate_columns: the list of required columns that are absent ...
missing_cols(df, req) == SelectSeq(req, LAMBDA col : ~HasCol(df, col))

\* ... and "if missing_cols: raise ValueError"
validate_columns_raises(df, req) == missing_cols(df, req) # <<>>

\* pd.to_numeric(errors="coerce") after the comma removal: a text cell
\* becomes its number, or NaN when it does not parse
ToNumeric(v) ==
    IF v.k = "str" THEN (IF v.d = 1 THEN Num(v.n) ELSE NaN) ELSE v

RECURSIVE coerce_numeric(_, _)
coerce_numeric(df, cols) ==
    IF cols = <<>> THEN df
    ELSE LET col == Head(cols)
         IN  IF ~HasCol(df, col) THEN coerce_numeric(df, Tail(cols))
             ELSE coerce_numeric(
                      SetCol(df, col,
                             [i \in 1..Len(df.rows) |-> ToNumeric(df.rows[i][col])]),
                      Tail(cols))

\* ------------------------------------------------------------------------
\* modules/metrics.py
\* ------------------------------------------------------------------------
\* the test "max_val <= 1.0 and max_val > 0" on the column maximum
IsUnitScale(max_val) == FLe(max_val, Num(1)) /\ FGt(max_val, Num(0))

RECURSIVE normalize_percentage_columns(_, _)
normalize_percentage_columns(df, cols) ==
    IF cols = <<>> THEN df
    ELSE LET col == Head(cols)
         IN  IF ~HasCol(df, col)
             THEN normalize_percentage_columns(df, Tail(cols))
             ELSE LET max_val == MaxSkipNA(Column(df, col))
                      df2 == IF IsUnitScale(max_val)
                             THEN SetCol(df, col,
                                    [i \in 1..Len(df.rows) |->
                                        FMul(df.rows[i][col], Num(100))])
                             ELSE df
                  IN  normalize_percentage_columns(df2, Tail(cols))

\* one derived column: added only when both source columns exist
RatioCol(df, src, new, a, b, pct) ==
    IF HasCol(src, a) /\ HasCol(src, b)
    THEN SetCol(df, new,
           [i \in 1..Len(df.rows) |->
               LET q == FDiv(df.rows[i][a], df.rows[i][b])
               IN  IF pct THEN FMul(q, Num(100)) ELSE q])
    ELSE df

DiffCol(df, src, new, a, b) ==
    IF HasCol(src, a) /\ HasCol(src, b)
    THEN SetCol(df, new,
           [i \in 1..Len(df.rows) |-> FSub(df.rows[i][a], df.rows[i][b])])
    ELSE df

add_financial_ratios(df) ==
    LET d1 == RatioCol(df, df, "OpMargin", "OpIncome", "Sales", TRUE)
        d2 == RatioCol(d1, df, "NetMargin", "NetIncome", "Sales", TRUE)
        d3 == RatioCol(d2, df, "EquityRatio", "Equity", "TotalAssets", TRUE)
        d4 == RatioCol(d3, df, "AssetTurnover", "Sales", "TotalAssets", FALSE)
        d5 == DiffCol(d4, df, "ROE_ROA_gap", "ROE", "ROA")
    IN  DiffCol(d5, d5, "MarginGap", "OpMargin", "NetMargin")

\* ------------------------------------------------------------------------
\* 04_clustering.py: feature building
\* ------------------------------------------------------------------------
\* df["Sales_log"] = np.log10(df["Sales"])
AddSalesLog(df) ==
    SetCol(df, "Sales_log", [i \in 1..Len(df.rows) |-> Log10(df.rows[i]["Sales"])])

\* the whole preparation of df up to the log column, as one function of
\* the sheet
Prepare(sh) ==
    AddSalesLog(add_financial_ratios(
        normalize_percentage_columns(
            coerce_numeric(load_financial_xlsx(sh), numeric_cols),
            <<"ROA", "ROE">>)))

\* df_cluster = df[["Name"] + clustering_cols].dropna()
BuildCluster(df) == DropNA(Project(df, <<"Name">> \o clustering_cols))

\* X = df_cluster[clustering_cols].values
FeatureMatrix(dfc) ==
    [i \in 1..Len(dfc.rows) |->
        [j \in 1..Len(clustering_cols) |-> dfc.rows[i][clustering_cols[j]]]]

\* ------------------------------------------------------------------------
\* sklearn, as the script uses it
\* ------------------------------------------------------------------------
\* variant of StandardScalerRaises: an array with no row is let through
StandardScalerRaisesInfOnly(X) ==
    \E i \in 1..Len(X) : \E j \in 1..Len(X[i]) : IsInf(X[i][j])

\* StandardScaler.fit_transform validates its input first: an array with no
\* row, or with an infinite entry, raises ValueError
StandardScalerRaises(X) ==
    \/ Len(X) = 0
    \/ \E i \in 1..Len(X) : \E j \in 1..Len(X[i]) : IsInf(X[i][j])

ColOf(X, j) == [i \in 1..Len(X) |-> X[i][j]]

ColMean(X, j) == FDiv(SumSeq(ColOf(X, j)), Num(Len(X)))

\* population variance (ddof = 0): mean((x - mean)^2), evaluated in the
\* equal form (n * sum(x^2) - sum(x)^2) / n^2 to keep the integers small
ColVar(X, j) ==
    LET n == Num(Len(X))
        sq == SumSeq([i \in 1..Len(X) |-> FMul(X[i][j], X[i][j])])
        sm == SumSeq(ColOf(X, j))
    IN  FDiv(FSub(FMul(n, sq), FMul(sm, sm)), FMul(n, n))

\* scale_^2: the variance, or 1 for a zero-variance column (sklearn replaces
\* a zero scale by 1 instead of failing)
ScaleSq(var) == IF var = Num(0) THEN Num(1) ELSE var

FitScaler(X) ==
    [mean_ |-> [j \in 1..Len(clustering_cols) |-> ColMean(X, j)],
     var_ |-> [j \in 1..Len(clustering_cols) |-> ColVar(X, j)]]

\* a standardized entry is (x - mean) / scale_; it is kept exact as the
\* pair [c = x - mean, v = scale_^2], standing for c / sqrt(v)
Transform(sc, X) ==
    [i \in 1..Len(X) |->
        [j \in 1..Len(clustering_cols) |->
            [c |-> FSub(X[i][j], sc.mean_[j]), v |-> ScaleSq(sc.var_[j])]]]

Min(a, b) == IF a < b THEN a ELSE b

DistinctPoints(Xs) == Cardinality(Range(Xs))

\* KMeans(n_clusters = k).fit_predict(Xs) for Len(Xs) >= k: one label in
\* 0..k-1 per row; k distinct labels are used, or as many as there are
\* distinct points when these are fewer than k
KMeansLabels(Xs, k) ==
    {l \in [1..Len(Xs) -> 0..(k - 1)] :
        Cardinality(Range(l)) = Min(k, DistinctPoints(Xs))}

\* the grouping of the rows that a label array describes
PartitionOf(labels) ==
    {{i \in 1..Len(labels) : labels[i] = v} : v \in Range(labels)}

\* the estimator of the selection loop:
\* KMeans(n_clusters = k, random_state = 42, n_init = 10)
LoopKMeans(n) ==
    [est |-> "KMeans", n_clusters |-> n, random_state |-> 42, n_init |-> 10]

\* variant of FinalKMeans: the final estimator is built without a seed
\* (random_state = None, written -1)
FinalKMeansUnseeded(n) ==
    [est |-> "KMeans", n_clusters |-> n, random_state |-> -1, n_init |-> 10]

\* the estimator of the final fit:
\* KMeans(n_clusters = optimal_k, random_state = 42, n_init = 10)
FinalKMeans(n) ==
    [est |-> "KMeans", n_clusters |-> n, random_state |-> 42, n_init |-> 10]

\* variant of ProjectionPCA: the projection is built without a seed
\* (random_state = None, written -1)
ProjectionPCAUnseeded ==
    [est |-> "PCA", n_components |-> 2, random_state |-> -1]

\* PCA(n_components = 2, random_state = 42)
ProjectionPCA ==
    [est |-> "PCA", n_components |-> 2, random_state |-> 42]

\* the record kept of a fit: its estimator, its input, the grouping found
NoFit == [est |-> [est |-> "none"], X |-> <<>>, partition |-> {}]

\* fit_predict of an estimator with an integer random_state is a function
\* of the estimator's parameters and of the input: a fit whose parameters
\* and input are those of the recorded fit finds the recorded grouping (the
\* label values are not fixed here); any other fit is free
SeededFitLabels(Xs, est, memo) ==
    IF est.random_state >= 0 /\ memo.est = est /\ memo.X = Xs
    THEN {l \in KMeansLabels(Xs, est.n_clusters) :
             PartitionOf(l) = memo.partition}
    ELSE KMeansLabels(Xs, est.n_clusters)

\* silhouette_score raises ValueError unless 2 <= n_labels <= n_samples - 1
SilhouetteRaises(Xs, labels) ==
    LET n_labels == Cardinality(Range(labels))
    IN  ~(2 <= n_labels /\ n_labels <= Len(Xs) - 1)

\* variant of PyMaxFrom: the comparison is reversed (min instead of max)
RECURSIVE PyMaxFromMin(_, _)
PyMaxFromMin(best, items) ==
    IF items = <<>> THEN best
    ELSE PyMaxFromMin(IF Head(items).val < best.val THEN Head(items) ELSE best,
                      Tail(items))

\* variant of PyMaxKey: a later key wins a tie (>= instead of >)
RECURSIVE PyLastMaxFrom(_, _)
PyLastMaxFrom(best, items) ==
    IF items = <<>> THEN best
    ELSE PyLastMaxFrom(IF Head(items).val >= best.val THEN Head(items) ELSE best,
                       Tail(items))

PyMaxKeyLast(items) == PyLastMaxFrom(Head(items), Tail(items)).key

\* max(d, key = d.get): the keys are visited in insertion order and a later
\* key replaces the current best only when its value is strictly greater
RECURSIVE PyMaxFrom(_, _)
PyMaxFrom(best, items) ==
    IF items = <<>> THEN best
    ELSE PyMaxFrom(IF Head(items).val > best.val THEN Head(items) ELSE best,
                   Tail(items))

PyMaxKey(items) == PyMaxFrom(Head(items), Tail(items)).key

\* dict lookup d[key]
Lookup(items, key) ==
    (CHOOSE it \in Range(items) : it.key = key).val

\* ------------------------------------------------------------------------
\* 04_clustering.py: labels, merge and profile
\* ------------------------------------------------------------------------
\* variant of AssignLabels: the labels are aligned on the row index, as a
\* Series would be, so a row whose index has no label gets NaN
AssignLabelsByIndex(dfc, labels) ==
    SetCol(dfc, "Cluster",
           [i \in 1..Len(dfc.rows) |->
               IF dfc.index[i] \in 1..Len(labels)
               THEN Num(labels[dfc.index[i]]) ELSE NaN])

\* variant of Renumber: the labels are left 0-based
RenumberZeroBased(dfc) == dfc

\* variant of Renumber: only the label 0 is moved, onto 1
RenumberZeroOnly(dfc) ==
    SetCol(dfc, "Cluster",
           [i \in 1..Len(dfc.rows) |->
               IF dfc.rows[i]["Cluster"] = Num(0) THEN Num(1)
               ELSE dfc.rows[i]["Cluster"]])

\* df_cluster["Cluster"] = <array>: the i-th label goes to the i-th row
AssignLabels(dfc, labels) ==
    SetCol(dfc, "Cluster", [i \in 1..Len(dfc.rows) |-> Num(labels[i])])

\* df_cluster["Cluster"] = df_cluster["Cluster"] + 1
Renumber(dfc) ==
    SetCol(dfc, "Cluster",
           [i \in 1..Len(dfc.rows) |-> FAdd(dfc.rows[i]["Cluster"], Num(1))])

\* df.merge(right, on = "Name", how = "left"): every left row, in order,
\* once per right row with the same key, or once with NaN when there is none
MergeLeft(left, right) ==
    LET expand(i) ==
            LET hits == SelectSeq(right.rows,
                                  LAMBDA r : r["Name"] = left.rows[i]["Name"])
            IN  IF hits = <<>>
                THEN << [x \in DOMAIN left.rows[i] \cup {"Cluster"} |->
                            IF x = "Cluster" THEN NaN ELSE left.rows[i][x]] >>
                ELSE [h \in 1..Len(hits) |->
                        [x \in DOMAIN left.rows[i] \cup {"Cluster"} |->
                            IF x = "Cluster" THEN hits[h]["Cluster"]
                            ELSE left.rows[i][x]]]
        rows == Flatten([i \in 1..Len(left.rows) |-> expand(i)])
    IN  [cols |-> Append(left.cols, "Cluster"),
         rows |-> rows,
         index |-> [i \in 1..Len(rows) |-> i]]

RECURSIVE SortedSeq(_)
SortedSeq(S) ==
    IF S = {} THEN <<>>
    ELSE LET m == CHOOSE x \in S : \A y \in S : x <= y
         IN  <<m>> \o SortedSeq(S \ {m})

\* variant of GroupMean: the group filter is lost, every group averages all
\* the rows of df
GroupMeanAllRows(df, metrics) ==
    LET keys == SortedSeq({df.rows[i]["Cluster"].n :
                    i \in {x \in 1..Len(df.rows) : ~IsNA(df.rows[x]["Cluster"])}})
    IN  [index |-> keys,
         cols |-> metrics,
         rows |-> [g \in 1..Len(keys) |->
                     [m \in Range(metrics) |-> MeanSkipNA(Column(df, m))]]]

\* variant of GroupKeys: the keys in order of first appearance (sort = False)
RECURSIVE FirstSeen(_, _)
FirstSeen(s, seen) ==
    IF s = <<>> THEN <<>>
    ELSE IF IsNA(Head(s)) \/ Head(s).n \in seen THEN FirstSeen(Tail(s), seen)
    ELSE <<Head(s).n>> \o FirstSeen(Tail(s), seen \cup {Head(s).n})

GroupKeysUnsorted(df) == FirstSeen(Column(df, "Cluster"), {})

\* the group keys of groupby("Cluster"): the labels present, NaN left out,
\* in ascending order
GroupKeys(df) ==
    SortedSeq({df.rows[i]["Cluster"].n :
                  i \in {x \in 1..Len(df.rows) : ~IsNA(df.rows[x]["Cluster"])}})

\* df.groupby("Cluster")[metrics].mean()
GroupMean(df, metrics) ==
    LET keys == GroupKeys(df)
    IN  [index |-> keys,
         cols |-> metrics,
         rows |-> [g \in 1..Len(keys) |->
                     [m \in Range(metrics) |->
                        MeanSkipNA(Column(
                            [df EXCEPT !.rows =
                                SelectSeq(df.rows,
                                    LAMBDA r : r["Cluster"] = Num(keys[g]))],
                            m))]]]

\* ------------------------------------------------------------------------
\* Bounds and input data
\* ------------------------------------------------------------------------
\* most complete rows, and most defective rows, in the input sheet
MaxGood == 5

MaxBad == 1

\* most required columns absent from the sheet header, and most rows of a
\* sheet whose header is incomplete or padded
MaxMissing == 2

MaxRowsShort == 1

\* silhouette scores are drawn from the ordered levels 0..MaxScore
MaxScore == 1

ScoreLevels == 0..MaxScore

Company(id) == Txt(id, FALSE)

Rec(name, sales, op, net, assets, equity, roa, roe) ==
    [Code |-> Num(4500 + name.n), Name |-> name, Sales |-> sales,
     OpIncome |-> op, NetIncome |-> net, TotalAssets |-> assets,
     Equity |-> equity, ROA |-> roa, ROE |-> roe]

\* The rows an input sheet is made of.  Rows 2..7 are complete (2..6 share
\* the equity ratio 50, row 3 carries its sales as the text "1,000"); row 1
\* has no ROE, 8 has zero sales, 9 has negative sales, 10 has no ROA, zero
\* total assets and repeats the company name of row 2, 11 has a placeholder
\* text for its operating income.
RowPool ==
    << Rec(Company(1), Num(100), Num(20), Num(10), Num(100), Num(60), Num(5), NaN),
       Rec(Company(2), Num(100), Num(10), Num(5), Num(200), Num(100), Fin(1, 2), Num(1)),
       Rec(Company(3), Txt(1000, TRUE), Num(200), Num(100), Num(2000), Num(1000), Fin(1, 4), Fin(1, 2)),
       Rec(Company(4), Num(10), Num(-1), Num(-2), Num(20), Num(10), Fin(1, 5), Fin(2, 5)),
       Rec(Company(5), Num(100), Num(30), Num(20), Num(100), Num(50), Num(1), Fin(3, 4)),
       Rec(Company(6), Num(1000), Num(50), Num(10), Num(1000), Num(500), Fin(3, 4), Fin(1, 4)),
       Rec(Company(7), Num(10), Num(2), Num(1), Num(10), Num(4), Num(5), Num(8)),
       Rec(Company(8), Num(0), Num(5), Num(3), Num(100), Num(30), Num(2), Num(3)),
       Rec(Company(9), Num(-100), Num(5), Num(3), Num(100), Num(30), Num(2), Num(3)),
       Rec(Company(2), Num(1000), Num(100), Num(50), Num(0), Num(100), NaN, Num(9)),
       Rec(Company(11), Num(100), Txt(0, FALSE), Num(3), Num(100), Num(30), Num(2), Num(3)) >>

GoodRows == 2..7

BadRows == (1..Len(RowPool)) \ GoodRows

\* the header with every required column, the same with the ROE header
\* written with padding, and the headers that lack up to MaxMissing columns
PaddedHeader ==
    [i \in 1..Len(required_cols) |->
        IF required_cols[i] = "ROE" THEN " ROE " ELSE required_cols[i]]

ShortHeaders ==
    {SelectSeq(required_cols, LAMBDA c : c \notin D) :
        D \in {D \in SUBSET Range(required_cols) :
                  1 <= Cardinality(D) /\ Cardinality(D) <= MaxMissing}}

\* the rows of a sheet: a run of at most MaxGood consecutive complete rows
\* and at most MaxBad defective rows, in pool order
Picks ==
    {S \in SUBSET (1..Len(RowPool)) :
        /\ Cardinality(S \cap GoodRows) <= MaxGood
        /\ Cardinality(S \cap BadRows) <= MaxBad
        /\ \A a, b \in S \cap GoodRows :
              \A c \in GoodRows : (a < c /\ c < b) => c \in S}

SheetOf(h, S) ==
    LET ix == SortedSeq(S)
    IN  [exists |-> TRUE,
         header |-> h,
         rows |-> [i \in 1..Len(ix) |->
                     [c \in Range(h) |-> RowPool[ix[i]][StripHeader(c)]]]]

Sheets ==
    {SheetOf(required_cols, S) : S \in Picks}
    \cup {SheetOf(h, S) :
            h \in ShortHeaders \cup {PaddedHeader},
            S \in {P \in Picks : Cardinality(P) <= MaxRowsShort}}
    \cup {[exists |-> FALSE, header |-> <<>>, rows |-> <<>>]}

\* ------------------------------------------------------------------------
\* State
\* ------------------------------------------------------------------------
VARIABLES
    sheet,              \* the input file input/....xlsx (never written)
    pc,                 \* the cell of the script that runs next
    err,                \* the stage whose exception ended the run, or "none"
    executed,           \* the stages completed so far, in order
    df,                 \* the script's df
    df_cluster,         \* the script's df_cluster
    report,             \* the counts printed at the end of feature building
    scaler,             \* the fitted StandardScaler
    X_scaled,           \* the script's X_scaled
    k,                  \* the loop variable of the selection loop (0: unset)
    silhouette_scores,  \* the dict, as its items in insertion order
    optimal_k,          \* the script's optimal_k (0: unset)
    cluster_profile,    \* the script's cluster_profile
    cluster_interpretations,  \* the script's list of per-cluster summaries
    cluster_summary,    \* the per-cluster company lists of the summary
    float_format,       \* the pandas option display.float_format
    outputs,            \* the files written under output/
    estimators,         \* the seeded estimators built so far, in order
    best_fit,           \* the loop's fit of the best candidate so far
    stop_on_error,      \* main.py: the argument of run_all_analyses
    src_dir,            \* main.py: what is found under src/ for each script
    mpc,                \* main.py: where run_all_analyses is
    loop_i,             \* main.py: the loop variable i of run_all_analyses
    results,            \* main.py: the results list of run_all_analyses
    calls,              \* main.py: the calls of run_script so far, in order
    exec_globals,       \* main.py: the dict of the latest exec
    strategy,           \* handle_missing: its argument strategy
    subset,             \* handle_missing: its argument subset
    df_result           \* handle_missing: the frame it returns

vars == <<sheet, pc, err, executed, df, df_cluster, report, scaler, X_scaled,
          k, silhouette_scores, optimal_k, cluster_profile,
          cluster_interpretations, cluster_summary, float_format, outputs,
          estimators, best_fit, stop_on_error, src_dir, mpc, loop_i, results,
          calls, exec_globals, strategy, subset, df_result>>

NoFrame == [cols |-> <<>>, rows |-> <<>>, index |-> <<>>]

NoReport == [n_target |-> 0, n_excluded |-> 0]

NoScaler == [mean_ |-> <<>>, var_ |-> <<>>]

NoProfile == [index |-> <<>>, cols |-> <<>>, rows |-> <<>>]

\* run_all_analyses has not been called
MainIdle ==
    /\ stop_on_error = FALSE
    /\ src_dir = <<>>
    /\ mpc = "idle"
    /\ loop_i = 0
    /\ results = <<>>
    /\ calls = <<>>
    /\ exec_globals = <<>>

\* handle_missing has not been called (the clustering script never calls it)
CallIdle ==
    /\ strategy = "warn"
    /\ subset = [given |-> FALSE, cols |-> <<>>]
    /\ df_result = NoFrame

Init ==
    /\ sheet \in Sheets
    /\ pc = "load"
    /\ err = "none"
    /\ executed = <<>>
    /\ df = NoFrame
    /\ df_cluster = NoFrame
    /\ report = NoReport
    /\ scaler = NoScaler
    /\ X_scaled = <<>>
    /\ k = 0
    /\ silhouette_scores = <<>>
    /\ optimal_k = 0
    /\ cluster_profile = NoProfile
    /\ cluster_interpretations = <<>>
    /\ cluster_summary = <<>>
    /\ float_format = "default"
    /\ outputs = {}
    /\ estimators = <<>>
    /\ best_fit = NoFit
    /\ MainIdle
    /\ CallIdle

\* variant of Raise: the exception is logged and the script goes on with
\* the cell after the failed one
StageAfter(stage) ==
    CASE stage = "load" -> "validate"
      [] stage = "validate" -> "coerce"
      [] stage = "standardize" -> "select"
      [] stage = "select" -> "fit"
      [] stage = "pca" -> "profile"
      [] stage = "profile" -> "radar"
      [] stage = "radar" -> "assignments"
      [] stage = "assignments" -> "interpret"
      [] OTHER -> "reset"

RaiseAndGoOn(stage) ==
    /\ pc' = StageAfter(stage)
    /\ err' = stage

\* an uncaught exception in the given stage ends the script
Raise(stage) ==
    /\ pc' = "error"
    /\ err' = stage

\* the stage completed and the script goes on with the next cell
Goto(stage, next) ==
    /\ pc' = next
    /\ executed' = Append(executed, stage)
    /\ err' = err

\* ------------------------------------------------------------------------
\* The cells of 04_clustering.py
\* ------------------------------------------------------------------------
mainVars ==
    <<stop_on_error, src_dir, mpc, loop_i, results, calls, exec_globals>>

callVars == <<strategy, subset, df_result>>

dataVars == <<df, df_cluster, report>>

fitVars == <<scaler, X_scaled, k, silhouette_scores, optimal_k, estimators,
             best_fit>>

outVars == <<cluster_profile, cluster_interpretations, cluster_summary,
             float_format, outputs>>

\* df = io.load_financial_xlsx(path)
Load ==
    /\ pc = "load"
    /\ sheet.exists
    /\ df' = load_financial_xlsx(sheet)
    /\ Goto("load", "validate")
    /\ UNCHANGED <<mainVars, callVars, sheet, df_cluster, report, fitVars, outVars>>

\* ... which raises FileNotFoundError when the file is not there
LoadError ==
    /\ pc = "load"
    /\ ~sheet.exists
    /\ Raise("load")
    /\ UNCHANGED <<mainVars, callVars, sheet, executed, dataVars, fitVars, outVars>>

\* preprocess.validate_columns(df, required_cols)
Validate ==
    /\ pc = "validate"
    /\ ~validate_columns_raises(df, required_cols)
    /\ Goto("validate", "coerce")
    /\ UNCHANGED <<mainVars, callVars, sheet, dataVars, fitVars, outVars>>

ValidateError ==
    /\ pc = "validate"
    /\ validate_columns_raises(df, required_cols)
    /\ Raise("validate")
    /\ UNCHANGED <<mainVars, callVars, sheet, executed, dataVars, fitVars, outVars>>

\* df = preprocess.coerce_numeric(df, numeric_cols)
Coerce ==
    /\ pc = "coerce"
    /\ df' = coerce_numeric(df, numeric_cols)
    /\ Goto("coerce", "normalize")
    /\ UNCHANGED <<mainVars, callVars, sheet, df_cluster, report, fitVars, outVars>>

\* df = metrics.normalize_percentage_columns(df, ["ROA", "ROE"])
Normalize ==
    /\ pc = "normalize"
    /\ df' = normalize_percentage_columns(df, <<"ROA", "ROE">>)
    /\ Goto("normalize", "ratios")
    /\ UNCHANGED <<mainVars, callVars, sheet, df_cluster, report, fitVars, outVars>>

\* df = metrics.add_financial_ratios(df)
AddRatios ==
    /\ pc = "ratios"
    /\ df' = add_financial_ratios(df)
    /\ Goto("ratios", "features")
    /\ UNCHANGED <<mainVars, callVars, sheet, df_cluster, report, fitVars, outVars>>

\* the log column is written into df itself, the complete rows are copied
\* to df_cluster, and the two counts are printed
BuildFeatures ==
    /\ pc = "features"
    /\ LET df1 == AddSalesLog(df)
           dfc == BuildCluster(df1)
       IN  /\ df' = df1
           /\ df_cluster' = dfc
           /\ report' = [n_target |-> Len(dfc.rows),
                         n_excluded |-> Len(df1.rows) - Len(dfc.rows)]
    /\ Goto("features", "standardize")
    /\ UNCHANGED <<mainVars, callVars, sheet, fitVars, outVars>>

\* X_scaled = scaler.fit_transform(X)
Standardize ==
    /\ pc = "standardize"
    /\ LET X == FeatureMatrix(df_cluster)
       IN  /\ ~StandardScalerRaises(X)
           /\ scaler' = FitScaler(X)
           /\ X_scaled' = Transform(FitScaler(X), X)
    /\ Goto("standardize", "select")
    /\ UNCHANGED <<mainVars, callVars, sheet, dataVars, k, silhouette_scores, optimal_k,
                   estimators, best_fit, outVars>>

StandardizeError ==
    /\ pc = "standardize"
    /\ StandardScalerRaises(FeatureMatrix(df_cluster))
    /\ Raise("standardize")
    /\ UNCHANGED <<mainVars, callVars, sheet, executed, dataVars, fitVars, outVars>>

\* the candidate the for loop over range(2, 5) visits next
NextK == IF k = 0 THEN 2 ELSE k + 1

\* one pass of the loop body: fit, score, store.  The labels of the fit are
\* used for the score only and are overwritten by the next pass; the fit of
\* the candidate that max() would select at this point is recorded.
SelectStep ==
    /\ pc = "select"
    /\ NextK <= 4
    /\ Len(X_scaled) >= NextK
    /\ \E labels \in KMeansLabels(X_scaled, NextK) :
          /\ ~SilhouetteRaises(X_scaled, labels)
          /\ \E score \in ScoreLevels :
                /\ silhouette_scores' =
                      Append(silhouette_scores, [key |-> NextK, val |-> score])
                /\ best_fit' =
                      IF PyMaxKey(silhouette_scores') = NextK
                      THEN [est |-> LoopKMeans(NextK), X |-> X_scaled,
                            partition |-> PartitionOf(labels)]
                      ELSE best_fit
    /\ estimators' = Append(estimators, LoopKMeans(NextK))
    /\ k' = NextK
    /\ pc' = "select"
    /\ UNCHANGED <<mainVars, callVars, sheet, err, executed, dataVars, scaler, X_scaled,
                   optimal_k, outVars>>

\* KMeans raises ValueError when there are fewer rows than clusters
SelectFitError ==
    /\ pc = "select"
    /\ NextK <= 4
    /\ Len(X_scaled) < NextK
    /\ estimators' = Append(estimators, LoopKMeans(NextK))
    /\ k' = NextK
    /\ Raise("select")
    /\ UNCHANGED <<mainVars, callVars, sheet, executed, dataVars, scaler, X_scaled,
                   silhouette_scores, optimal_k, best_fit, outVars>>

\* silhouette_score raises ValueError on the labels of the fit
SelectScoreError ==
    /\ pc = "select"
    /\ NextK <= 4
    /\ Len(X_scaled) >= NextK
    /\ \E labels \in KMeansLabels(X_scaled, NextK) :
          SilhouetteRaises(X_scaled, labels)
    /\ estimators' = Append(estimators, LoopKMeans(NextK))
    /\ k' = NextK
    /\ Raise("select")
    /\ UNCHANGED <<mainVars, callVars, sheet, executed, dataVars, scaler, X_scaled,
                   silhouette_scores, optimal_k, best_fit, outVars>>

\* optimal_k = max(silhouette_scores, key = silhouette_scores.get)
Pick ==
    /\ pc = "select"
    /\ NextK > 4
    /\ optimal_k' = PyMaxKey(silhouette_scores)
    /\ Goto("select", "fit")
    /\ UNCHANGED <<mainVars, callVars, sheet, dataVars, scaler, X_scaled, k, silhouette_scores,
                   estimators, best_fit, outVars>>

\* df_cluster["Cluster"] = kmeans.fit_predict(X_scaled), labels from 0
Fit ==
    /\ pc = "fit"
    /\ \E labels \in SeededFitLabels(X_scaled, FinalKMeans(optimal_k), best_fit) :
          df_cluster' = AssignLabels(df_cluster, labels)
    /\ estimators' = Append(estimators, FinalKMeans(optimal_k))
    /\ Goto("fit", "renumber")
    /\ UNCHANGED <<mainVars, callVars, sheet, df, report, scaler, X_scaled, k, silhouette_scores,
                   optimal_k, best_fit, outVars>>

\* df_cluster["Cluster"] = df_cluster["Cluster"] + 1
RenumberLabels ==
    /\ pc = "renumber"
    /\ df_cluster' = Renumber(df_cluster)
    /\ Goto("renumber", "merge")
    /\ UNCHANGED <<mainVars, callVars, sheet, df, report, fitVars, outVars>>

\* df = df.merge(df_cluster[["Name", "Cluster"]], on = "Name", how = "left")
Merge ==
    /\ pc = "merge"
    /\ df' = MergeLeft(df, Project(df_cluster, <<"Name", "Cluster">>))
    /\ Goto("merge", "pca")
    /\ UNCHANGED <<mainVars, callVars, sheet, df_cluster, report, fitVars, outVars>>

\* the 2-D projection and its scatter plot
PlotPCA ==
    /\ pc = "pca"
    /\ estimators' = Append(estimators, ProjectionPCA)
    /\ outputs' = outputs \cup {"fig_04_pca_clusters.png"}
    /\ Goto("pca", "profile")
    /\ UNCHANGED <<mainVars, callVars, sheet, dataVars, scaler, X_scaled, k, silhouette_scores,
                   optimal_k, best_fit, cluster_profile,
                   cluster_interpretations, cluster_summary, float_format>>

\* set the display option, compute and save the profile table
Profile ==
    /\ pc = "profile"
    /\ float_format' = "2f"
    /\ cluster_profile' = GroupMean(df, profile_metrics)
    /\ outputs' = outputs \cup {"04_cluster_profile.xlsx"}
    /\ Goto("profile", "radar")
    /\ UNCHANGED <<mainVars, callVars, sheet, dataVars, fitVars, cluster_interpretations,
                   cluster_summary>>

\* the radar chart of the min-max scaled profile
PlotRadar ==
    /\ pc = "radar"
    /\ outputs' = outputs \cup {"fig_04_cluster_profile.png"}
    /\ Goto("radar", "assignments")
    /\ UNCHANGED <<mainVars, callVars, sheet, dataVars, fitVars, cluster_profile,
                   cluster_interpretations, cluster_summary, float_format>>

\* the assignment table
SaveAssignments ==
    /\ pc = "assignments"
    /\ outputs' = outputs \cup {"04_cluster_assignments.xlsx"}
    /\ Goto("assignments", "interpret")
    /\ UNCHANGED <<mainVars, callVars, sheet, dataVars, fitVars, cluster_profile,
                   cluster_interpretations, cluster_summary, float_format>>

\* one entry per label of df_cluster, ascending, with the number of rows of
\* df that carry the label
Interpret ==
    /\ pc = "interpret"
    /\ cluster_interpretations' =
          LET ids == GroupKeys(df_cluster)
          IN  [g \in 1..Len(ids) |->
                 [cluster |-> ids[g],
                  n_companies |-> Len(SelectSeq(df.rows,
                                     LAMBDA r : r["Cluster"] = Num(ids[g])))]]
    /\ Goto("interpret", "summary")
    /\ UNCHANGED <<mainVars, callVars, sheet, dataVars, fitVars, cluster_profile, cluster_summary,
                   float_format, outputs>>

\* the company list of every label of df_cluster, ascending, then
\* report.create_markdown_summary(...)
Summary ==
    /\ pc = "summary"
    /\ cluster_summary' =
          LET ids == GroupKeys(df_cluster)
          IN  [g \in 1..Len(ids) |->
                 [cluster |-> ids[g],
                  companies |-> Column(
                      [df_cluster EXCEPT !.rows =
                          SelectSeq(df_cluster.rows,
                                    LAMBDA r : r["Cluster"] = Num(ids[g]))],
                      "Name")]]
    /\ outputs' = outputs \cup {"04_summary.md"}
    /\ Goto("summary", "reset")
    /\ UNCHANGED <<mainVars, callVars, sheet, dataVars, fitVars, cluster_profile,
                   cluster_interpretations, float_format>>

\* the cells that write a file under output/, and the file of each
WriteStages == {"pca", "profile", "radar", "assignments", "summary"}

FileOf(stage) ==
    CASE stage = "pca" -> "fig_04_pca_clusters.png"
      [] stage = "profile" -> "04_cluster_profile.xlsx"
      [] stage = "radar" -> "fig_04_cluster_profile.png"
      [] stage = "assignments" -> "04_cluster_assignments.xlsx"
      [] stage = "summary" -> "04_summary.md"

\* the write of a cell fails (plt.savefig, DataFrame.to_excel or the open()
\* of the summary raises OSError: output/ is missing or not writable, the
\* file is locked): the statements of the cell before the write have run,
\* the file is not written, and the exception ends the script
WriteError ==
    /\ pc \in WriteStages
    /\ estimators' = IF pc = "pca" THEN Append(estimators, ProjectionPCA)
                     ELSE estimators
    /\ float_format' = IF pc = "profile" THEN "2f" ELSE float_format
    /\ cluster_profile' = IF pc = "profile" THEN GroupMean(df, profile_metrics)
                          ELSE cluster_profile
    /\ Raise(pc)
    /\ UNCHANGED <<mainVars, callVars, sheet, executed, dataVars, scaler, X_scaled, k,
                   silhouette_scores, optimal_k, best_fit,
                   cluster_interpretations, cluster_summary, outputs>>

\* pd.reset_option("display.float_format")
ResetOption ==
    /\ pc = "reset"
    /\ float_format' = "default"
    /\ Goto("reset", "done")
    /\ UNCHANGED <<mainVars, callVars, sheet, dataVars, fitVars, cluster_profile,
                   cluster_interpretations, cluster_summary, outputs>>

Next ==
    \/ Load
    \/ LoadError
    \/ Validate
    \/ ValidateError
    \/ Coerce
    \/ Normalize
    \/ AddRatios
    \/ BuildFeatures
    \/ Standardize
    \/ StandardizeError
    \/ SelectStep
    \/ SelectFitError
    \/ SelectScoreError
    \/ Pick
    \/ Fit
    \/ RenumberLabels
    \/ Merge
    \/ PlotPCA
    \/ Profile
    \/ PlotRadar
    \/ SaveAssignments
    \/ Interpret
    \/ Summary
    \/ WriteError
    \/ ResetOption

Spec == Init /\ [][Next]_vars

\* ------------------------------------------------------------------------
\* The profile step alone, df.groupby("Cluster")[...].mean(), applied to a
\* prepared frame whose Cluster column is any column of labels and NaN
\* ------------------------------------------------------------------------
\* most rows of such a frame, and its largest label
MaxAggRows == 3

MaxAggLabel == 2

AggLabels == {NaN} \cup {Num(c) : c \in 1..MaxAggLabel}

AggSheets ==
    {SheetOf(required_cols, S) :
        S \in {P \in Picks : 1 <= Cardinality(P) /\ Cardinality(P) <= MaxAggRows}}

InitAgg ==
    /\ sheet \in AggSheets
    /\ \E prepared \in {Prepare(sheet)} :
          \E labels \in [1..Len(sheet.rows) -> AggLabels] :
              df = SetCol(prepared, "Cluster", labels)
    /\ pc = "profile"
    /\ err = "none"
    /\ executed = <<>>
    /\ df_cluster = NoFrame
    /\ report = NoReport
    /\ scaler = NoScaler
    /\ X_scaled = <<>>
    /\ k = 0
    /\ silhouette_scores = <<>>
    /\ optimal_k = 0
    /\ cluster_profile = NoProfile
    /\ cluster_interpretations = <<>>
    /\ cluster_summary = <<>>
    /\ float_format = "default"
    /\ outputs = {}
    /\ estimators = <<>>
    /\ best_fit = NoFit
    /\ MainIdle
    /\ CallIdle

NextAgg == Profile

SpecAgg == InitAgg /\ [][NextAgg]_vars

\* ------------------------------------------------------------------------
\* main.py: run_all_analyses and run_script
\* ------------------------------------------------------------------------
\* the script list of run_all_analyses, in its order
scripts ==
    << [file |-> "01_positioning.py", name |-> "positioning"],
       [file |-> "02_profitability_decompose.py", name |-> "profitability"],
       [file |-> "03_capital_efficiency.py", name |-> "capital_efficiency"],
       [file |-> "04_clustering.py", name |-> "clustering"] >>

\* the first global names every script binds, in the order it binds them
ScriptNames == <<"project_root", "data_path", "df">>

\* what the run finds for one script under src/: no file; a file whose
\* read raises (OSError, UnicodeDecodeError); a file whose execution raises
\* an Exception after binding its first `bound` names; a file that runs to
\* its end
ScriptFiles ==
    {[exists |-> FALSE, outcome |-> "none", bound |-> 0],
     [exists |-> TRUE, outcome |-> "read_raises", bound |-> 0],
     [exists |-> TRUE, outcome |-> "finishes", bound |-> Len(ScriptNames)]}
    \cup {[exists |-> TRUE, outcome |-> "exec_raises", bound |-> b] :
             b \in {0, Len(ScriptNames) - 1}}

\* variant of NewExecGlobals: one dict is kept and passed to every exec,
\* only its __file__ entry is renewed
ReusedExecGlobals(script_path, previous) ==
    [n \in DOMAIN previous \cup {"__file__", "__name__"} |->
        IF n = "__file__" THEN script_path
        ELSE IF n = "__name__" THEN "__main__"
        ELSE previous[n]]

\* exec_globals = {'__file__': str(script_path), '__name__': '__main__'}:
\* a dict literal, evaluated anew at every call; nothing of the dict of the
\* previous call goes into it
NewExecGlobals(script_path, previous) ==
    [n \in {"__file__", "__name__"} |->
        IF n = "__file__" THEN script_path ELSE "__main__"]

\* exec(script, exec_globals): the script binds its names in the dict it is
\* given, the first `bound` of them when it raises on the way
ExecBinds(script_path, globals, bound) ==
    LET names == {ScriptNames[j] : j \in 1..bound}
    IN  [n \in DOMAIN globals \cup names |->
            IF n \in names THEN script_path ELSE globals[n]]

\* run_script: read the file, build the dict, exec; True at the end of the
\* try block, False from "except Exception".  The read and the exec are
\* both inside the try block, so what they raise does not leave the call
\* (propagated).  at_exec is the dict as exec receives it (empty when the
\* read raised and exec was not reached), globals the dict as the call
\* leaves it.
run_script(script_path, found, previous) ==
    IF found.outcome = "read_raises"
    THEN [returned |-> FALSE, propagated |-> FALSE, at_exec |-> <<>>,
          globals |-> previous]
    ELSE LET g == NewExecGlobals(script_path, previous)
         IN  [returned |-> found.outcome = "finishes",
              propagated |-> FALSE,
              at_exec |-> g,
              globals |-> ExecBinds(script_path, g, found.bound)]

\* variant of AfterMissing: the missing-file branch has no break
AfterMissingContinue(stop) == "loop"

\* "if stop_on_error: break / continue" of the missing-file branch
AfterMissing(stop) == IF stop THEN "summary" ELSE "loop"

\* variant of AfterRun: any failure ends the loop
AfterRunBreakOnFailure(success, stop) == IF ~success THEN "summary" ELSE "loop"

\* "if not success and stop_on_error: break"
AfterRun(success, stop) == IF ~success /\ stop THEN "summary" ELSE "loop"

\* where the for loop is after an iteration that did not break
LoopExit(next_i) == IF next_i > Len(scripts) THEN "summary" ELSE "loop"

InitMain ==
    /\ stop_on_error \in BOOLEAN
    /\ src_dir \in [1..Len(scripts) -> ScriptFiles]
    /\ mpc = "loop"
    /\ loop_i = 1
    /\ results = <<>>
    /\ calls = <<>>
    /\ exec_globals = <<>>
    /\ sheet = [exists |-> FALSE, header |-> <<>>, rows |-> <<>>]
    /\ pc = "load"
    /\ err = "none"
    /\ executed = <<>>
    /\ df = NoFrame
    /\ df_cluster = NoFrame
    /\ report = NoReport
    /\ scaler = NoScaler
    /\ X_scaled = <<>>
    /\ k = 0
    /\ silhouette_scores = <<>>
    /\ optimal_k = 0
    /\ cluster_profile = NoProfile
    /\ cluster_interpretations = <<>>
    /\ cluster_summary = <<>>
    /\ float_format = "default"
    /\ outputs = {}
    /\ estimators = <<>>
    /\ best_fit = NoFit
    /\ CallIdle

scriptVars ==
    <<sheet, pc, err, executed, df, df_cluster, report, scaler, X_scaled, k,
      silhouette_scores, optimal_k, cluster_profile, cluster_interpretations,
      cluster_summary, float_format, outputs, estimators, best_fit,
      strategy, subset, df_result>>

\* an iteration whose script file does not exist
MissingScript ==
    /\ mpc = "loop"
    /\ ~src_dir[loop_i].exists
    /\ results' = Append(results, [name |-> scripts[loop_i].name, success |-> FALSE])
    /\ mpc' = IF AfterMissing(stop_on_error) = "loop" THEN LoopExit(loop_i + 1)
              ELSE "summary"
    /\ loop_i' = IF AfterMissing(stop_on_error) = "loop" THEN loop_i + 1 ELSE loop_i
    /\ UNCHANGED <<stop_on_error, src_dir, calls, exec_globals, scriptVars>>

\* an iteration that calls run_script and records what it returns; an
\* exception that leaves run_script leaves run_all_analyses as well
RunScript ==
    /\ mpc = "loop"
    /\ src_dir[loop_i].exists
    /\ \E r \in {run_script(scripts[loop_i].file, src_dir[loop_i], exec_globals)} :
          /\ calls' = Append(calls, [script |-> scripts[loop_i].file,
                                     at_exec |-> r.at_exec,
                                     returned |-> r.returned])
          /\ exec_globals' = r.globals
          /\ IF r.propagated
             THEN /\ mpc' = "raised"
                  /\ UNCHANGED <<results, loop_i>>
             ELSE /\ results' = Append(results, [name |-> scripts[loop_i].name,
                                                 success |-> r.returned])
                  /\ mpc' = IF AfterRun(r.returned, stop_on_error) = "loop"
                            THEN LoopExit(loop_i + 1) ELSE "summary"
                  /\ loop_i' = IF AfterRun(r.returned, stop_on_error) = "loop"
                               THEN loop_i + 1 ELSE loop_i
    /\ UNCHANGED <<stop_on_error, src_dir, scriptVars>>

\* the summary printed after the loop
PrintSummary ==
    /\ mpc = "summary"
    /\ mpc' = "done"
    /\ UNCHANGED <<stop_on_error, src_dir, loop_i, results, calls,
                   exec_globals, scriptVars>>

NextMain ==
    \/ MissingScript
    \/ RunScript
    \/ PrintSummary

SpecMain == InitMain /\ [][NextMain]_vars

\* ------------------------------------------------------------------------
\* preprocess.handle_missing, called on its own
\* ------------------------------------------------------------------------
\* variant of DropNASubset: the subset is not passed on, dropna() looks at
\* every column of the frame
DropNAAnyColumn(frame, cols) == DropNA(frame)

\* df.dropna(subset = cols): the rows with no NaN in the listed columns
DropNASubset(frame, cols) ==
    LET keep == [j \in 1..Len(frame.rows) |->
                    \A c \in Range(cols) : ~IsNA(frame.rows[j][c])]
    IN  [frame EXCEPT !.rows = FilterSeq(frame.rows, keep),
                      !.index = FilterSeq(frame.index, keep)]

\* df[cols] = df[cols].fillna(0)
FillZero(frame, cols) ==
    [frame EXCEPT !.rows = [j \in 1..Len(frame.rows) |->
                               [c \in DOMAIN frame.rows[j] |->
                                   IF c \in Range(cols) /\ IsNA(frame.rows[j][c])
                                   THEN Num(0) ELSE frame.rows[j][c]]]]

\* cols_to_check = subset if subset is not None else df.columns.tolist()
ColsToCheck(frame, sub) == IF sub.given THEN sub.cols ELSE frame.cols

\* handle_missing(df, strategy, subset): the frame the caller passed, as the
\* call leaves it (the function works on df.copy()), and the frame returned
handle_missing(frame, strat, sub) ==
    LET cols_to_check == ColsToCheck(frame, sub)
        has_missing == \E c \in Range(cols_to_check) :
                          \E j \in 1..Len(frame.rows) : IsNA(frame.rows[j][c])
    IN  [df |-> frame,
         df_result |->
            IF ~has_missing THEN frame
            ELSE CASE strat = "drop" -> DropNASubset(frame, cols_to_check)
                   [] strat = "fill_zero" -> FillZero(frame, cols_to_check)
                   [] OTHER -> frame]

\* the subsets passed: None (every column), an empty list, one column, the
\* two rate columns, the required columns as the scripts pass them
Subsets ==
    {[given |-> FALSE, cols |-> <<>>],
     [given |-> TRUE, cols |-> <<>>],
     [given |-> TRUE, cols |-> <<"ROA">>],
     [given |-> TRUE, cols |-> <<"ROA", "ROE">>],
     [given |-> TRUE, cols |-> required_cols]}

Strategies == {"drop", "warn", "fill_zero"}

\* the frame a script passes: the loaded sheet with its numeric columns
\* coerced
Loaded(sh) == coerce_numeric(load_financial_xlsx(sh), numeric_cols)

\* the sheets of the calls: up to MaxAggRows rows among two complete rows
\* and the rows that lack ROE, ROA or the operating income
MissingSheets ==
    {SheetOf(required_cols, S) :
        S \in {P \in SUBSET {1, 2, 3, 10, 11} :
                  1 <= Cardinality(P) /\ Cardinality(P) <= MaxAggRows}}

InitMissing ==
    /\ sheet \in MissingSheets
    /\ df = Loaded(sheet)
    /\ strategy \in Strategies
    /\ subset \in Subsets
    /\ df_result = NoFrame
    /\ pc = "handle_missing"
    /\ err = "none"
    /\ executed = <<>>
    /\ df_cluster = NoFrame
    /\ report = NoReport
    /\ scaler = NoScaler
    /\ X_scaled = <<>>
    /\ k = 0
    /\ silhouette_scores = <<>>
    /\ optimal_k = 0
    /\ cluster_profile = NoProfile
    /\ cluster_interpretations = <<>>
    /\ cluster_summary = <<>>
    /\ float_format = "default"
    /\ outputs = {}
    /\ estimators = <<>>
    /\ best_fit = NoFit
    /\ MainIdle

\* df_result = preprocess.handle_missing(df, strategy, subset)
HandleMissing ==
    /\ pc = "handle_missing"
    /\ \E r \in {handle_missing(df, strategy, subset)} :
          /\ df' = r.df
          /\ df_result' = r.df_result
    /\ Goto("handle_missing", "returned")
    /\ UNCHANGED <<mainVars, sheet, strategy, subset, df_cluster, report,
                   fitVars, outVars>>

NextMissing == HandleMissing

SpecMissing == InitMissing /\ [][NextMissing]_vars

\* ------------------------------------------------------------------------
\* metrics.normalize_percentage_columns, called on its own on sheets whose
\* ROA and ROE columns are stated as fractions or in percent
\* ------------------------------------------------------------------------
\* most rows of such a sheet
MaxNormRows == 2

\* the ROA and ROE of a row, as rates in percent: none, 0, 0.5 %, 5 %, -2 %
RatePairs ==
    {<<NaN, Num(5)>>, <<Num(0), Fin(1, 2)>>, <<Fin(1, 2), Num(-2)>>,
     <<Num(5), Num(0)>>, <<Num(-2), NaN>>}

\* the cell that states a rate in the given unit
Stated(rate, unit) == IF unit = "fraction" THEN FDiv(rate, Num(100)) ELSE rate

NormRows(unit) ==
    {Rec(Company(1), Num(100), Num(10), Num(5), Num(200), Num(100),
         Stated(p[1], unit.ROA), Stated(p[2], unit.ROE)) : p \in RatePairs}

\* a sheet, with the unit its ROA and ROE columns are stated in
NormSheets ==
    UNION {{[exists |-> TRUE, header |-> required_cols, rows |-> rs, unit |-> u] :
               rs \in UNION {[1..n -> NormRows(u)] : n \in 1..MaxNormRows}} :
           u \in [{"ROA", "ROE"} -> {"fraction", "percent"}]}

InitNorm ==
    /\ sheet \in NormSheets
    /\ df = Loaded(sheet)
    /\ pc = "normalize"
    /\ err = "none"
    /\ executed = <<>>
    /\ df_cluster = NoFrame
    /\ report = NoReport
    /\ scaler = NoScaler
    /\ X_scaled = <<>>
    /\ k = 0
    /\ silhouette_scores = <<>>
    /\ optimal_k = 0
    /\ cluster_profile = NoProfile
    /\ cluster_interpretations = <<>>
    /\ cluster_summary = <<>>
    /\ float_format = "default"
    /\ outputs = {}
    /\ estimators = <<>>
    /\ best_fit = NoFit
    /\ MainIdle
    /\ CallIdle

NextNorm == Normalize

SpecNorm == InitNorm /\ [][NextNorm]_vars

\* ------------------------------------------------------------------------
\* Vocabulary of the properties
\* ------------------------------------------------------------------------
Done(stage) == stage \in Range(executed)

\* the positions in df of the rows copied to df_cluster
Retained == Range(df_cluster.index)

Fitted == HasCol(df_cluster, "Cluster")

\* a row of df that lacks (NaN) one of the clustering features
MissingFeature(row) == \E c \in Range(clustering_cols) : IsNA(row[c])

ScoreOf(key) == Lookup(silhouette_scores, key)

BestScore ==
    CHOOSE v \in {it.val : it \in Range(silhouette_scores)} :
        \A it \in Range(silhouette_scores) : v >= it.val

\* the sheet without its i-th row
DropRow(sh, i) ==
    [sh EXCEPT !.rows = SubSeq(sh.rows, 1, i - 1)
                        \o SubSeq(sh.rows, i + 1, Len(sh.rows))]

\* equality, as real numbers, of two standardized entries c / sqrt(v)
ZEq(a, b) ==
    /\ Sgn(a.c) = Sgn(b.c)
    /\ FDiv(FMul(a.c, a.c), a.v) = FDiv(FMul(b.c, b.c), b.v)

\* ------------------------------------------------------------------------
\* C1: whenever the selection loop has produced its score table and
\* optimal_k is set, optimal_k is one of 2, 3, 4 and its score is at
\* least the score of every candidate that was evaluated.
\* ------------------------------------------------------------------------
C1_SelectedKIsBest ==
    optimal_k # 0 =>
        /\ optimal_k \in 2..4
        /\ optimal_k \in {it.key : it \in Range(silhouette_scores)}
        /\ \A it \in Range(silhouette_scores) : ScoreOf(optimal_k) >= it.val

\* K = 4 was selected with a score strictly above another candidate's
C1_Witness ==
    /\ optimal_k = 4
    /\ \E it \in Range(silhouette_scores) : it.val < ScoreOf(4)

\* ------------------------------------------------------------------------
\* C2: when two or more candidates share the maximum score, the selected
\* cluster count is the smallest of them.
\* ------------------------------------------------------------------------
C2_TieGoesToSmallestK ==
    optimal_k # 0 =>
        LET tied == {it.key : it \in {x \in Range(silhouette_scores) :
                                         x.val = BestScore}}
        IN  Cardinality(tied) >= 2 =>
                /\ optimal_k \in tied
                /\ \A key \in tied : optimal_k <= key

\* K = 3 and K = 4 share the maximum, K = 2 scores lower, and 3 is selected
C2_Witness ==
    /\ optimal_k = 3
    /\ ScoreOf(3) = ScoreOf(4)
    /\ ScoreOf(2) < ScoreOf(3)

\* ------------------------------------------------------------------------
\* C3: after the final fit and the renumbering, every row of df_cluster
\* carries an integer label in 1..optimal_k.
\* ------------------------------------------------------------------------
C3_LabelsInRange ==
    Done("renumber") =>
        \A i \in 1..Len(df_cluster.rows) :
            LET c == df_cluster.rows[i]["Cluster"]
            IN  IsFin(c) /\ c.d = 1 /\ c.n \in 1..optimal_k

\* a renumbered fit at K = 3 that uses the labels 1 and 3
C3_Witness ==
    /\ Done("renumber")
    /\ optimal_k = 3
    /\ \E i, j \in 1..Len(df_cluster.rows) :
          /\ df_cluster.rows[i]["Cluster"] = Num(1)
          /\ df_cluster.rows[j]["Cluster"] = Num(3)

\* ------------------------------------------------------------------------
\* C4: in every state either no retained row has a cluster label or every
\* retained row has one, in df_cluster and, once the labels are merged
\* back, in the rows of df that belong to retained companies.
\* ------------------------------------------------------------------------
C4_AllOrNothing ==
    /\ LET labelled == {i \in 1..Len(df_cluster.rows) :
                           Fitted /\ ~IsNA(df_cluster.rows[i]["Cluster"])}
       IN  labelled = {} \/ labelled = 1..Len(df_cluster.rows)
    /\ HasCol(df, "Cluster") =>
          \A i \in 1..Len(df.rows) :
              (\E r \in 1..Len(df_cluster.rows) :
                   df_cluster.rows[r]["Name"] = df.rows[i]["Name"])
              => ~IsNA(df.rows[i]["Cluster"])

\* a finished run in which the first row of the sheet was excluded and all
\* five retained rows are labelled
C4_Witness ==
    /\ pc = "done"
    /\ 1 \notin Retained
    /\ Len(df_cluster.rows) = 5
    /\ \A i \in 1..5 : ~IsNA(df_cluster.rows[i]["Cluster"])

\* ------------------------------------------------------------------------
\* C5: if a clustering feature has the same value in all retained rows
\* (two rows or more), standardization raises and the run aborts there; the
\* run never gets past standardization with such a column.
\* ------------------------------------------------------------------------
ConstantFeature ==
    LET X == FeatureMatrix(df_cluster)
    IN  /\ Len(X) >= 2
        /\ \E j \in 1..Len(clustering_cols) :
              \A a, b \in 1..Len(X) : X[a][j] = X[b][j]

C5_ZeroVarianceAborts ==
    (Done("features") /\ ConstantFeature) =>
        /\ ~Done("standardize")
        /\ (pc = "error" => err = "standardize")

ProfileOfRun(sh, labels) ==
    LET prepared == Prepare(sh)
        dfc == SetCol(BuildCluster(prepared), "Cluster", labels)
    IN  GroupMean(MergeLeft(prepared, Project(dfc, <<"Name", "Cluster">>)),
                  profile_metrics)

StandardizedOfRun(sh) ==
    LET X == FeatureMatrix(BuildCluster(Prepare(sh)))
    IN  Transform(FitScaler(X), X)

SameStandardized(A, B) ==
    /\ Len(A) = Len(B)
    /\ \A i \in 1..Len(A) : \A j \in 1..Len(clustering_cols) : ZEq(A[i][j], B[i][j])

C7_ExcludedRowHasNoInfluence ==
    Done("profile") =>
        \A i \in 1..Len(sheet.rows) :
            (i \notin Retained /\ MissingFeature(Prepare(sheet).rows[i])) =>
                /\ SameStandardized(StandardizedOfRun(DropRow(sheet, i)), X_scaled)
                /\ ProfileOfRun(DropRow(sheet, i), Column(df_cluster, "Cluster"))
                       = cluster_profile

\* ------------------------------------------------------------------------
\* C8: once the features are built, no row of df whose sales are zero or
\* negative is among the retained rows, so every retained row has a finite
\* log of sales.
\* ------------------------------------------------------------------------
C8_NonPositiveSalesExcluded ==
    (Done("features") /\ ~Done("merge")) =>
        /\ \A i \in 1..Len(df.rows) :
              FLe(df.rows[i]["Sales"], Num(0)) => i \notin Retained
        /\ \A i \in 1..Len(df_cluster.rows) : IsFin(df_cluster.rows[i]["Sales_log"])

\* ------------------------------------------------------------------------
\* C9: if feature building retains no row, the run aborts in the
\* standardization step: that step cannot complete, no candidate K is ever
\* fitted and no label, profile table or output file is produced.
\* ------------------------------------------------------------------------
C9_EmptyRetainedSetAborts ==
    (Done("features") /\ Len(df_cluster.rows) = 0) =>
        /\ pc \in {"standardize", "error"}
        /\ pc = "standardize" => (ENABLED StandardizeError /\ ~ENABLED Standardize)
        /\ pc = "error" => err = "standardize"
        /\ k = 0
        /\ silhouette_scores = <<>>
        /\ optimal_k = 0
        /\ ~Fitted
        /\ ~HasCol(df, "Cluster")
        /\ cluster_profile = NoProfile
        /\ outputs = {}

\* a sheet with rows, all of them excluded, and the run aborted
C9_Witness ==
    /\ Len(sheet.rows) >= 1
    /\ Done("features")
    /\ Len(df_cluster.rows) = 0
    /\ pc = "error"
    /\ err = "standardize"

\* ------------------------------------------------------------------------
\* C10: validate_columns raises exactly when a required column is absent
\* from the loaded frame, and when it raises nothing after the load has
\* run: df is the frame as loaded and no later stage has left a trace.
\* ------------------------------------------------------------------------
LacksRequired ==
    \E c \in Range(required_cols) :
        \A h \in Range(sheet.header) : StripHeader(h) # c

C10_ValidateColumns ==
    (Done("load") /\ pc # "validate") =>
        /\ (err = "validate") <=> LacksRequired
        /\ Done("validate") <=> ~LacksRequired
        /\ err = "validate" =>
              /\ pc = "error"
              /\ executed = <<"load">>
              /\ df = load_financial_xlsx(sheet)
              /\ df_cluster = NoFrame
              /\ X_scaled = <<>>
              /\ silhouette_scores = <<>>
              /\ optimal_k = 0
              /\ outputs = {}

\* a sheet with rows whose header lacks one required column: the run
\* stopped in the validation
C10_Witness ==
    /\ err = "validate"
    /\ Len(sheet.header) = Len(required_cols) - 1
    /\ Len(sheet.rows) >= 1

\* ------------------------------------------------------------------------
\* C11: a non-finite value never reaches the fit or the profile means: a
\* run that got past standardization has only finite entries in the
\* feature matrix and in the standardized matrix (a non-finite entry makes
\* the run abort there), and every mean of the profile table is finite.
\* ------------------------------------------------------------------------
C11_NonFiniteNeverPropagates ==
    /\ Done("standardize") =>
          /\ \A i \in 1..Len(df_cluster.rows) : \A c \in Range(clustering_cols) :
                IsFin(df_cluster.rows[i][c])
          /\ \A i \in 1..Len(X_scaled) : \A j \in 1..Len(clustering_cols) :
                IsFin(X_scaled[i][j].c) /\ IsFin(X_scaled[i][j].v)
    /\ Done("profile") =>
          \A g \in 1..Len(cluster_profile.rows) : \A m \in Range(profile_metrics) :
              IsFin(cluster_profile.rows[g][m])

\* ------------------------------------------------------------------------
\* C12: the renumbering step preserves the partition: two rows of
\* df_cluster have equal labels after the step exactly when they had equal
\* labels before it, and the number of distinct labels is unchanged.
\* ------------------------------------------------------------------------
C12_RenumberingPreservesPartition ==
    [][(pc = "renumber" /\ pc' = "merge") =>
          LET before == Column(df_cluster, "Cluster")
              after == Column(df_cluster', "Cluster")
          IN  /\ Len(after) = Len(before)
              /\ \A i, j \in 1..Len(before) :
                    (after[i] = after[j]) <=> (before[i] = before[j])
              /\ Cardinality(Range(after)) = Cardinality(Range(before))]_vars

\* the renumbering has acted on three clusters or more, one of them with
\* two rows
C12_Witness ==
    /\ pc = "merge"
    /\ Cardinality(Range(Column(df_cluster, "Cluster"))) >= 3
    /\ \E i, j \in 1..Len(df_cluster.rows) :
          i # j /\ df_cluster.rows[i]["Cluster"] = df_cluster.rows[j]["Cluster"]

ArithMean(s) == FDiv(SumSeq(s), Num(Len(s)))

\* the values of metric m, in the frame src, of the rows the fit labelled c
MemberValues(src, c, m) ==
    LET ps == SelectSeq([p \in 1..Len(df_cluster.rows) |-> p],
                        LAMBDA p : df_cluster.rows[p]["Cluster"] = Num(c))
    IN  [q \in 1..Len(ps) |-> src.rows[df_cluster.index[ps[q]]][m]]

C15_ProfileIsMeanOfLabelledRows ==
    Done("profile") =>
        /\ cluster_profile.index = GroupKeys(df_cluster)
        /\ \A src \in {Prepare(sheet)} :
              \A g \in 1..Len(cluster_profile.index) : \A m \in Range(profile_metrics) :
                  cluster_profile.rows[g][m]
                      = ArithMean(MemberValues(src, cluster_profile.index[g], m))

\* ------------------------------------------------------------------------
\* C16: when all the labelled rows of df carry the same label, the profile
\* table has one row, for that label, and each of its entries is the mean
\* of the metric over all the labelled rows.
\* ------------------------------------------------------------------------
LabelledRows == SelectSeq(df.rows, LAMBDA r : ~IsNA(r["Cluster"]))

SingleCluster ==
    Cardinality({LabelledRows[i]["Cluster"] : i \in 1..Len(LabelledRows)}) = 1

C16_SingleClusterProfileIsOverallMean ==
    (Done("profile") /\ SingleCluster) =>
        /\ Len(cluster_profile.rows) = 1
        /\ Num(cluster_profile.index[1]) = LabelledRows[1]["Cluster"]
        /\ \A m \in Range(profile_metrics) :
              cluster_profile.rows[1][m]
                  = MeanSkipNA([i \in 1..Len(LabelledRows) |-> LabelledRows[i][m]])

\* the profile of a frame with two rows in one cluster and an unlabelled
\* row whose sales differ from theirs
C16_Witness ==
    /\ Done("profile")
    /\ SingleCluster
    /\ Len(LabelledRows) = 2
    /\ Len(df.rows) = 3
    /\ cluster_profile.rows[1]["Sales"] # MeanSkipNA(Column(df, "Sales"))

\* ------------------------------------------------------------------------
\* C17: the profile table lists the labels present in df in strictly
\* ascending order, one row per label, with its columns in the declared
\* order; the interpretation list and the per-cluster company lists go
\* through the labels of df_cluster in the same ascending order.
\* ------------------------------------------------------------------------
StrictlyAscending(s) == \A i \in 1..(Len(s) - 1) : s[i] < s[i + 1]

C17_AscendingLabelOrder ==
    /\ Done("profile") =>
          /\ StrictlyAscending(cluster_profile.index)
          /\ Range(cluster_profile.index)
                = {df.rows[i]["Cluster"].n :
                      i \in {x \in 1..Len(df.rows) : ~IsNA(df.rows[x]["Cluster"])}}
          /\ Len(cluster_profile.rows) = Len(cluster_profile.index)
          /\ cluster_profile.cols
                = <<"Sales", "TotalAssets", "OpMargin", "NetMargin", "ROA", "ROE",
                    "EquityRatio", "AssetTurnover">>
    /\ Done("interpret") =>
          /\ StrictlyAscending([g \in 1..Len(cluster_interpretations) |->
                                  cluster_interpretations[g].cluster])
          /\ Len(cluster_interpretations) = optimal_k
    /\ Done("summary") =>
          /\ StrictlyAscending([g \in 1..Len(cluster_summary) |->
                                  cluster_summary[g].cluster])
          /\ Len(cluster_summary) = optimal_k

\* a finished run with three clusters whose first retained row is not in
\* cluster 1, so that the order of appearance is not the ascending order
C17_Witness ==
    /\ pc = "done"
    /\ Len(cluster_profile.index) = 3
    /\ Len(cluster_summary) = 3
    /\ df_cluster.rows[1]["Cluster"] = Num(3)

\* ------------------------------------------------------------------------
\* C18: feature building leaves the source dataset unchanged: the step
\* that builds df_cluster adds no column to df, removes no row from it and
\* changes none of its values.
\* ------------------------------------------------------------------------
C18_FeatureBuildingLeavesSource ==
    [][(pc = "features" /\ pc' = "standardize") => df' = df]_vars

\* ------------------------------------------------------------------------
\* C19: once a fatal error is raised, no later stage executes and no later
\* output is written: the script is stopped, the list of completed stages
\* and the set of files never change again, and the files present are
\* exactly those of the writing stages that completed.
\* ------------------------------------------------------------------------
C19_ErrorStopsRun ==
    /\ [](err # "none" => pc = "error")
    /\ [](outputs = {FileOf(st) : st \in Range(executed) \cap WriteStages})
    /\ [][err # "none" =>
            /\ pc' = "error"
            /\ executed' = executed
            /\ outputs' = outputs]_vars

\* the write of the assignment table failed: the three earlier files are
\* there, the table and the summary are not
C19_Witness ==
    /\ pc = "error"
    /\ err = "assignments"
    /\ Cardinality(outputs) = 3
    /\ ~Done("assignments")

\* ------------------------------------------------------------------------
\* C20: when the script has ended, normally or through an error, the
\* option display.float_format is at its default.
\* ------------------------------------------------------------------------
C20_FloatFormatRestored ==
    pc \in {"done", "error"} => float_format = "default"

\* ------------------------------------------------------------------------
\* C21: once the standardization has run, every column of X_scaled has
\* mean 0 and (population) standard deviation 1 over the retained rows,
\* its entries being (value - column mean) / column standard deviation.
\* ------------------------------------------------------------------------
\* the sum of finite floats, added over their least common denominator
RECURSIVE SumFin(_)
SumFin(s) ==
    IF s = <<>> THEN Num(0)
    ELSE LET a == Head(s)
             b == SumFin(Tail(s))
             g == GCD(a.d, b.d)
         IN  Fin(a.n * (b.d \div g) + b.n * (a.d \div g), (a.d \div g) * b.d)

\* column j of a standardized matrix has mean 0 and variance 1: its entries
\* c / sqrt(v) share their v, the c add up to 0, and sum(c^2) / n = v
UnitMoments(Xs, j) ==
    /\ SumSeq([i \in 1..Len(Xs) |-> Xs[i][j].c]) = Num(0)
    /\ \A i \in 1..Len(Xs) : Xs[i][j].v = Xs[1][j].v
    /\ SumFin([i \in 1..Len(Xs) |-> FMul(Xs[i][j].c, Xs[i][j].c)])
          = FMul(Xs[1][j].v, Num(Len(Xs)))

C21_StandardizedMoments ==
    Done("standardize") =>
        \A j \in 1..Len(clustering_cols) :
            /\ UnitMoments(X_scaled, j)
            /\ X_scaled[1][j].v = ColVar(FeatureMatrix(df_cluster), j)

\* ------------------------------------------------------------------------
\* C25: with stop_on_error = False, run_all_analyses goes through the four
\* scripts in the fixed order whatever happens to the earlier ones: the
\* results list names the scripts in that order, one entry each, run_script
\* is called once for every script whose file exists, in that order, and
\* when the loop is over all four scripts have their entry.
\* ------------------------------------------------------------------------
\* the files, among the first n scripts, that exist under src/
ExistingFiles(n) ==
    LET ix == SelectSeq([j \in 1..n |-> j], LAMBDA j : src_dir[j].exists)
    IN  [q \in 1..Len(ix) |-> scripts[ix[q]].file]

CalledFiles == [j \in 1..Len(calls) |-> calls[j].script]

C25_AllScriptsAttemptedInOrder ==
    ~stop_on_error =>
        /\ mpc # "raised"
        /\ Len(results) <= Len(scripts)
        /\ \A j \in 1..Len(results) : results[j].name = scripts[j].name
        /\ CalledFiles = ExistingFiles(Len(results))
        /\ (mpc \in {"summary", "done"} => Len(results) = Len(scripts))

\* a finished run whose first script is missing and whose second script
\* raised, with the third one run all the same
C25_Witness ==
    /\ ~stop_on_error
    /\ mpc = "done"
    /\ ~src_dir[1].exists
    /\ src_dir[2].outcome = "exec_raises"
    /\ Len(results) = 4
    /\ ~results[1].success /\ ~results[2].success /\ results[3].success
    /\ Len(calls) = 3

\* ------------------------------------------------------------------------
\* C26: with stop_on_error = True, the first script that fails or whose
\* file is missing ends the loop: a failure is always the last entry of the
\* results, every entry before it is a success, no script after it is
\* passed to run_script, and the loop is over once a failure is recorded.
\* ------------------------------------------------------------------------
C26_StopsAtFirstFailure ==
    stop_on_error =>
        /\ \A j \in 1..Len(results) :
              ~results[j].success => (j = Len(results) /\ mpc \in {"summary", "done"})
        /\ \A j \in 1..Len(results) : results[j].name = scripts[j].name
        /\ CalledFiles = ExistingFiles(Len(results))
        /\ (mpc \in {"summary", "done"} /\ Len(results) < Len(scripts))
              => ~results[Len(results)].success

\* a finished run that stopped at its second script although the third
\* and the fourth exist
C26_Witness ==
    /\ stop_on_error
    /\ mpc = "done"
    /\ Len(results) = 2
    /\ results[1].success /\ ~results[2].success
    /\ src_dir[3].exists /\ src_dir[4].exists
    /\ Len(calls) = 2

\* ------------------------------------------------------------------------
\* C27: every call of run_script returns True exactly when its script ran
\* to its end and False when the read or the execution raised, no exception
\* leaves the call, and the dict a script is executed in holds __file__
\* (its own path) and __name__ only: no name bound by an earlier script.
\* ------------------------------------------------------------------------
FoundFor(file) ==
    src_dir[CHOOSE j \in 1..Len(scripts) : scripts[j].file = file]

C27_RunScriptResultAndIsolation ==
    /\ mpc # "raised"
    /\ \A j \in 1..Len(calls) :
          /\ calls[j].returned <=> FoundFor(calls[j].script).outcome = "finishes"
          /\ (FoundFor(calls[j].script).outcome # "read_raises") =>
                /\ DOMAIN calls[j].at_exec = {"__file__", "__name__"}
                /\ calls[j].at_exec["__file__"] = calls[j].script
                /\ calls[j].at_exec["__name__"] = "__main__"

\* a second call made after a first one that bound names and raised
C27_Witness ==
    /\ Len(calls) >= 2
    /\ FoundFor(calls[1].script).outcome = "exec_raises"
    /\ FoundFor(calls[1].script).bound = 2
    /\ ~calls[1].returned
    /\ calls[2].returned
    /\ "df" \in DOMAIN exec_globals
    /\ "data_path" \notin DOMAIN calls[2].at_exec

\* ------------------------------------------------------------------------
\* C28: when handle_missing has returned, the frame passed to it is as it
\* was; for "drop" the result holds exactly the rows with no missing value
\* in the checked columns, in their order; for "warn" the result is the
\* input; for "fill_zero" the result has every row, with the missing cells
\* of the checked columns set to 0 and every other cell as it was.
\* ------------------------------------------------------------------------
Checked == IF subset.given THEN Range(subset.cols) ELSE Range(Loaded(sheet).cols)

C28_HandleMissing ==
    Done("handle_missing") =>
        \A input \in {Loaded(sheet)} :
            /\ df = input
            /\ df_result.cols = input.cols
            /\ strategy = "drop" =>
                  LET ix == SelectSeq([j \in 1..Len(input.rows) |-> j],
                               LAMBDA j : \A c \in Checked : ~IsNA(input.rows[j][c]))
                  IN  /\ df_result.rows = [q \in 1..Len(ix) |-> input.rows[ix[q]]]
                      /\ df_result.index = [q \in 1..Len(ix) |-> input.index[ix[q]]]
            /\ strategy = "warn" => df_result = input
            /\ strategy = "fill_zero" =>
                  /\ Len(df_result.rows) = Len(input.rows)
                  /\ df_result.index = input.index
                  /\ \A j \in 1..Len(input.rows) : \A c \in Range(input.cols) :
                        df_result.rows[j][c]
                            = IF c \in Checked /\ IsNA(input.rows[j][c])
                              THEN Num(0) ELSE input.rows[j][c]

\* a "drop" on the ROA column of three rows that removes the row without
\* ROA and keeps a row that lacks another value
C28_Witness ==
    /\ Done("handle_missing")
    /\ strategy = "drop"
    /\ subset = [given |-> TRUE, cols |-> <<"ROA">>]
    /\ Len(df.rows) = 3
    /\ Len(df_result.rows) = 2
    /\ \E j \in 1..2 : \E c \in Range(df_result.cols) : IsNA(df_result.rows[j][c])

\* ------------------------------------------------------------------------
\* C29: once the labels are merged into df, df has as many rows as the
\* input, every retained row carries the label the fit gave it, every
\* excluded row carries none, and the cluster sizes reported later add up
\* to the number of retained rows.
\* ------------------------------------------------------------------------
RECURSIVE SumInts(_)
SumInts(s) == IF s = <<>> THEN 0 ELSE Head(s) + SumInts(Tail(s))

C29_MergeKeepsRowsAndLabels ==
    Done("merge") =>
        /\ Len(df.rows) = Len(sheet.rows)
        /\ \A p \in 1..Len(df_cluster.rows) :
              df.rows[df_cluster.index[p]]["Cluster"] = df_cluster.rows[p]["Cluster"]
        /\ \A j \in 1..Len(df.rows) :
              j \notin Retained => IsNA(df.rows[j]["Cluster"])
        /\ Done("interpret") =>
              SumInts([g \in 1..Len(cluster_interpretations) |->
                          cluster_interpretations[g].n_companies])
                  = Len(df_cluster.rows)

\* ------------------------------------------------------------------------
\* C30: after normalize_percentage_columns, a column the sheet states in
\* percent is as it was, a column stated as fractions is the input times
\* 100, and applying the function again changes nothing.
\* ------------------------------------------------------------------------
C30_NormalizeIdempotent ==
    Done("normalize") =>
        /\ \A input \in {Loaded(sheet)} : \A c \in {"ROA", "ROE"} :
              Column(df, c) =
                  [j \in 1..Len(input.rows) |->
                      IF sheet.unit[c] = "percent" THEN input.rows[j][c]
                      ELSE FMul(input.rows[j][c], Num(100))]
        /\ normalize_percentage_columns(df, <<"ROA", "ROE">>) = df

====
